---- MODULE Spec2Model ----
(***************************************************************************)
(* A model of src/backend/app.py, the RScore API: the three request        *)
(* handlers batch_analysis, calculate_rscore and export_report, and the    *)
(* analysis functions they call.  One behaviour of the model is one        *)
(* request served by the application.                                      *)
(*                                                                         *)
(* Representation of values:                                               *)
(*   - an instant is a whole number of seconds since 1970-01-01T00:00;     *)
(*     NaT is the missing instant;                                         *)
(*   - a score or a dimension value is a whole number of tenths            *)
(*     (total_score 6.0 is 60);                                            *)
(*   - a social-health index is a whole number of thousandths ("milli");   *)
(*   - a DataFrame row carries a multiplicity n: it stands for n equal     *)
(*     rows that are adjacent in the frame;                                *)
(*   - text content is reduced to what the code reads of it: its length    *)
(*     and its number of emoji characters;                                 *)
(*   - Chinese string literals are replaced by ASCII tags.                 *)
(***************************************************************************)
EXTENDS Integers, Sequences, FiniteSets, TLC

VARIABLES
    pc,               \* "idle" before the request, "loop" inside the batch loop, "done"
    endpoint,         \* the handler that serves the request
    params,           \* batch_analysis: [top_n, limit]
    contacts,         \* batch_analysis: db.get_contacts()
    i,                \* batch_analysis: number of contacts iterated so far
    outcome,          \* batch_analysis: what the store and the scorer answered for contact i
    scores,           \* batch_analysis: the list "scores"
    all_dimensions,   \* batch_analysis: the four per-dimension arrays
    all_time_data,    \* batch_analysis: the time-feature tuples
    analyzed_count,   \* batch_analysis: analyzed_count
    failed_count,     \* batch_analysis: failed_count
    messages,         \* single-contact query: db.get_chat_messages(user_name)
    response          \* what the caller receives: [status |-> 200, body |-> ...] or an HTTP error

vars == <<pc, endpoint, params, contacts, i, outcome, scores, all_dimensions,
          all_time_data, analyzed_count, failed_count, messages, response>>

(***************************************************************************)
(* Bounds of the model.                                                    *)
(***************************************************************************)
MaxContacts == 2
MaxMsgs == 3

(***************************************************************************)
(* Arithmetic helpers.                                                     *)
(***************************************************************************)
Max(a, b) == IF a >= b THEN a ELSE b
Min(a, b) == IF a <= b THEN a ELSE b
Abs(a) == IF a < 0 THEN -a ELSE a

RECURSIVE SumRange(_, _, _)
SumRange(s, lo, hi) ==
    IF lo > hi THEN 0
    ELSE IF lo = hi THEN s[lo]
    ELSE LET mid == (lo + hi) \div 2
         IN  SumRange(s, lo, mid) + SumRange(s, mid + 1, hi)

\* sum(s)
SumSeq(s) == SumRange(s, 1, Len(s))

\* Python's round(): num/den rounded to the nearest integer, ties to even.
RoundHalfEven(num, den) ==
    LET q == num \div den
        r == num - q * den
    IN  IF 2 * r < den THEN q
        ELSE IF 2 * r > den THEN q + 1
        ELSE IF q % 2 = 0 THEN q ELSE q + 1

RECURSIVE IsqrtBetween(_, _, _)
IsqrtBetween(x, lo, hi) ==
    IF lo >= hi THEN lo
    ELSE LET mid == (lo + hi + 1) \div 2
         IN  IF mid * mid <= x THEN IsqrtBetween(x, mid, hi)
             ELSE IsqrtBetween(x, lo, mid - 1)

\* floor of the square root (np.std takes a square root)
Isqrt(x) == IsqrtBetween(x, 0, 46340)

(***************************************************************************)
(* Instants and the calendar (pandas Timestamp attributes).                *)
(***************************************************************************)
NaT == -1
SecondsPerHour == 3600
SecondsPerDay == 86400
NanosPerSecond == 1000000000

notna(t) == t # NaT

IsLeap(y) == (y % 4 = 0 /\ y % 100 # 0) \/ y % 400 = 0
DaysInYear(y) == IF IsLeap(y) THEN 366 ELSE 365
DaysInMonth(y, m) ==
    IF m = 2 THEN (IF IsLeap(y) THEN 29 ELSE 28)
    ELSE IF m \in {4, 6, 9, 11} THEN 30 ELSE 31

RECURSIVE CivilYear(_, _)
CivilYear(d, y) ==
    IF d < DaysInYear(y) THEN [year |-> y, doy |-> d]
    ELSE CivilYear(d - DaysInYear(y), y + 1)

RECURSIVE CivilMonth(_, _, _)
CivilMonth(doy, y, m) ==
    IF doy < DaysInMonth(y, m) THEN m
    ELSE CivilMonth(doy - DaysInMonth(y, m), y, m + 1)

\* Timestamp.normalize(): the calendar date, as a day number
DateOf(t) == t \div SecondsPerDay
\* Timestamp.hour
HourOf(t) == (t \div SecondsPerHour) % 24
\* Timestamp.weekday(): Monday is 0; 1970-01-01 was a Thursday
WeekdayOf(t) == (DateOf(t) + 3) % 7
\* Timestamp.year
YearOf(t) == CivilYear(DateOf(t), 1970).year
\* Timestamp.strftime("%Y-%m"), as the number YYYYMM (same order as the string)
MonthKeyOf(t) ==
    LET c == CivilYear(DateOf(t), 1970)
    IN  c.year * 100 + CivilMonth(c.doy, c.year, 1)

(***************************************************************************)
(* DataFrames of messages, as the message store returns them.              *)
(*   columns : the column names present                                    *)
(*   dtype   : the dtype of the timestamp column                           *)
(*   rows    : the rows, each [n, ts, is_self, type, subtype, text]        *)
(***************************************************************************)
TsNames == <<"CreateTime", "create_time", "Timestamp", "Datetime", "dt", "time">>
IsSelfNames == <<"IsSender", "is_sender", "IsSend", "is_send", "is_self">>
TextNames == <<"Content", "StrContent", "content", "text">>
TypeNames == <<"Type", "type">>
SubTypeNames == <<"SubType", "sub_type", "SubTypeInt">>

None == "None"

\* next((c for c in names if c in df.columns), None)
FirstColumn(names, df) ==
    IF \E k \in 1..Len(names) : names[k] \in df.columns
    THEN names[CHOOSE k \in 1..Len(names) :
                  /\ names[k] \in df.columns
                  /\ \A j \in 1..(k - 1) : names[j] \notin df.columns]
    ELSE None

\* len(df): every row counts n times
NRows(rows) == SumSeq([k \in 1..Len(rows) |-> rows[k].n])

\* DataFrame.empty: an axis of length 0
IsEmpty(df) == NRows(df.rows) = 0 \/ df.columns = {}

Text(len, emojis) == [len |-> len, emojis |-> emojis]
Row(n, ts, is_self, type, subtype, text) ==
    [n |-> n, ts |-> ts, is_self |-> is_self, type |-> type, subtype |-> subtype, text |-> text]

FullColumns == {"CreateTime", "IsSender", "StrContent", "Type", "SubType"}
AltColumns == {"create_time", "is_sender", "content", "type"}
BareColumns == {"CreateTime"}
NoTsColumns == {"IsSender", "StrContent", "Type"}

Frame(columns, dtype, rows) == [columns |-> columns, dtype |-> dtype, rows |-> rows]
EmptyFrame == Frame(FullColumns, "int64", <<>>)

(***************************************************************************)
(* The base scorer (analyzer.calculate_rscore), a black box: the results   *)
(* it may return, well-formed and malformed, and the answers of the store  *)
(* and the scorer for one contact of a batch.                              *)
(***************************************************************************)
DimOrder == <<"interaction", "content", "emotion", "depth">>
Dims == {DimOrder[k] : k \in 1..Len(DimOrder)}

Dimensions(interaction, content, emotion, depth) ==
    [interaction |-> interaction, content |-> content, emotion |-> emotion, depth |-> depth]

Result(total_score, status, dimensions, df) ==
    [total_score |-> total_score,
     dimensions |-> dimensions,
     statistics |-> [total_messages |-> NRows(df.rows)],
     relationship_status |-> status]

\* the results of the base scorer for the messages df
ScorerResults(df) ==
    { Result(100, "active", Dimensions(90, 80, 80, 70), df),
      Result(80, "active", Dimensions(70, 90, -20, 60), df),
      Result(60, "dormant", Dimensions(60, 60, 120, 60), df),
      Result(60, "active", Dimensions(50, 60, 70, 60), df),
      Result(40, "lost", Dimensions(40, 30, 50, 40), df),
      \* no relationship_status
      [total_score |-> 19, dimensions |-> Dimensions(10, 20, 0, 30),
       statistics |-> [total_messages |-> NRows(df.rows)]],
      \* no total_score
      [dimensions |-> Dimensions(50, 50, 50, 50),
       statistics |-> [total_messages |-> NRows(df.rows)],
       relationship_status |-> "active"],
      \* dimensions without "emotion"
      [total_score |-> 70,
       dimensions |-> [interaction |-> 70, content |-> 70, depth |-> 70],
       statistics |-> [total_messages |-> NRows(df.rows)],
       relationship_status |-> "active"] }

NoResult == [relationship_status |-> "unknown"]

\* the message collections the store returns in a batch
BatchFrames ==
    { EmptyFrame,
      \* datetime64 timestamps, one of them missing: Mon 1970-01-05 10:00, NaT, Sun 1970-02-01 23:00
      Frame(FullColumns, "datetime64",
            << Row(1, 4 * SecondsPerDay + 10 * SecondsPerHour, 1, 1, 0, Text(5, 0)),
               Row(1, NaT, 0, 1, 0, Text(3, 1)),
               Row(1, 31 * SecondsPerDay + 23 * SecondsPerHour, 0, 3, 0, Text(0, 0)) >>),
      \* epoch seconds in an int64 column
      Frame(FullColumns, "int64",
            << Row(1, 400 * SecondsPerDay + 3 * SecondsPerHour, 0, 1, 0, Text(8, 2)) >>),
      \* a store that names the timestamp column create_time
      Frame(AltColumns, "int64",
            << Row(1, 2 * SecondsPerDay, 1, 1, 0, Text(2, 0)) >>) }

Outcome(fetch_raises, df, scorer_raises, result) ==
    [fetch_raises |-> fetch_raises, messages |-> df,
     scorer_raises |-> scorer_raises, result |-> result]

NoOutcome == Outcome(FALSE, EmptyFrame, FALSE, NoResult)

\* what db.get_chat_messages and analyzer.calculate_rscore may do for one contact
Outcomes ==
    {Outcome(TRUE, EmptyFrame, FALSE, NoResult)}
    \cup {Outcome(FALSE, df, FALSE, NoResult) : df \in {f \in BatchFrames : IsEmpty(f)}}
    \cup {Outcome(FALSE, df, TRUE, NoResult) : df \in {f \in BatchFrames : ~IsEmpty(f)}}
    \cup UNION {{Outcome(FALSE, df, FALSE, r) : r \in ScorerResults(df)} :
                    df \in {f \in BatchFrames : ~IsEmpty(f)}}

(***************************************************************************)
(* batch_analysis: one iteration of the loop over the contacts.            *)
(***************************************************************************)
Contact(k) == [UserName |-> k, DisplayName |-> k]

\* contacts if limit <= 0 else contacts[:limit]
contacts_to_analyze ==
    IF params.limit <= 0 THEN contacts
    ELSE SubSeq(contacts, 1, Min(params.limit, Len(contacts)))

\* a KeyError while the summary dict is built, before scores.append
SummaryRaises(result) ==
    \/ "total_score" \notin DOMAIN result
    \/ "statistics" \notin DOMAIN result
    \/ "total_messages" \notin DOMAIN result.statistics
    \/ "dimensions" \notin DOMAIN result

Summary(contact, result) ==
    [user_name |-> contact.UserName,
     display_name |-> contact.DisplayName,
     score |-> result.total_score,
     message_count |-> result.statistics.total_messages,
     relationship_status |->
         IF "relationship_status" \in DOMAIN result
         THEN result.relationship_status ELSE "unknown",
     dimensions |-> result.dimensions]

\* the position in DimOrder of the first dimension the result lacks, 0 when none
FirstMissingDim(dimensions) ==
    IF \A k \in 1..Len(DimOrder) : DimOrder[k] \in DOMAIN dimensions THEN 0
    ELSE CHOOSE k \in 1..Len(DimOrder) :
            /\ DimOrder[k] \notin DOMAIN dimensions
            /\ \A j \in 1..(k - 1) : DimOrder[j] \in DOMAIN dimensions

\* for dim in all_dimensions: all_dimensions[dim].append(result["dimensions"][dim]),
\* up to the KeyError if there is one
AppendDimensions(all_dims, dimensions) ==
    LET miss == FirstMissingDim(dimensions)
    IN  [d \in Dims |->
            LET k == CHOOSE j \in 1..Len(DimOrder) : DimOrder[j] = d
            IN  IF miss = 0 \/ k < miss THEN Append(all_dims[d], dimensions[d])
                ELSE all_dims[d]]

\* pd.to_datetime(column, errors="coerce") with no unit: integers are nanoseconds
ToDatetimeNoUnit(dtype, v) ==
    IF v = NaT THEN NaT
    ELSE IF dtype = "int64" THEN v \div NanosPerSecond
    ELSE v

TimeTuple(t) ==
    [weekday |-> WeekdayOf(t), hour |-> HourOf(t), month |-> MonthKeyOf(t),
     year |-> YearOf(t), count |-> 1]

RECURSIVE Repeat(_, _)
Repeat(x, n) == IF n <= 0 THEN <<>> ELSE <<x>> \o Repeat(x, n - 1)

RECURSIVE RowTimeTuples(_, _)
RowTimeTuples(dtype, rows) ==
    IF rows = <<>> THEN <<>>
    ELSE LET t == ToDatetimeNoUnit(dtype, Head(rows).ts)
         IN  (IF notna(t) THEN Repeat(TimeTuple(t), Head(rows).n) ELSE <<>>)
             \o RowTimeTuples(dtype, Tail(rows))

\* the inner try block: the tuples of one contact's messages; a frame without a
\* "CreateTime" column raises KeyError, which the inner except swallows
BatchTimeTuples(df) ==
    IF "CreateTime" \notin df.columns THEN <<>>
    ELSE RowTimeTuples(df.dtype, df.rows)

\* except Exception: failed_count += 1; continue
Failed(acc) == [acc EXCEPT !.failed_count = @ + 1]

\* mutant of Skipped: an empty collection is counted as a failure
SkippedCountedAsFailure(acc) == Failed(acc)

\* if not messages.empty: ... (nothing is done for an empty collection)
Skipped(acc) == acc

\* the body of the loop for one contact, on the accumulators acc
ProcessContact(acc, contact, o) ==
    IF o.fetch_raises THEN Failed(acc)
    ELSE IF IsEmpty(o.messages) THEN Skipped(acc)
    ELSE IF o.scorer_raises THEN Failed(acc)
    ELSE IF SummaryRaises(o.result) THEN Failed(acc)
    ELSE LET a1 == [acc EXCEPT !.scores = Append(@, Summary(contact, o.result))]
             a2 == [a1 EXCEPT !.all_dimensions =
                                  AppendDimensions(@, o.result.dimensions)]
         IN  IF FirstMissingDim(o.result.dimensions) # 0 THEN Failed(a2)
             ELSE [a2 EXCEPT !.all_time_data = @ \o BatchTimeTuples(o.messages),
                             !.analyzed_count = @ + 1]

(***************************************************************************)
(* batch_analysis: after the loop.                                         *)
(***************************************************************************)
RECURSIVE InsertBeforeEqual(_, _)
\* mutant of InsertDescending: x goes in front of the elements of equal score
InsertBeforeEqual(sorted, x) ==
    IF sorted = <<>> THEN <<x>>
    ELSE IF Head(sorted).score > x.score
         THEN <<Head(sorted)>> \o InsertBeforeEqual(Tail(sorted), x)
         ELSE <<x>> \o sorted

RECURSIVE InsertDescending(_, _)
\* x goes behind every element whose score is not lower: equal scores keep their order
InsertDescending(sorted, x) ==
    IF sorted = <<>> THEN <<x>>
    ELSE IF Head(sorted).score >= x.score
         THEN <<Head(sorted)>> \o InsertDescending(Tail(sorted), x)
         ELSE <<x>> \o sorted

RECURSIVE SortScores(_)
\* scores.sort(key=lambda x: x["score"], reverse=True): a stable sort, also in reverse
SortScores(s) ==
    IF s = <<>> THEN <<>>
    ELSE InsertDescending(SortScores(SubSeq(s, 1, Len(s) - 1)), s[Len(s)])

RECURSIVE InsertAscending(_, _)
InsertAscending(sorted, x) ==
    IF sorted = <<>> THEN <<x>>
    ELSE IF Head(sorted) <= x THEN <<Head(sorted)>> \o InsertAscending(Tail(sorted), x)
         ELSE <<x>> \o sorted

RECURSIVE Sorted(_)
\* sorted(list of numbers)
Sorted(s) ==
    IF s = <<>> THEN <<>>
    ELSE InsertAscending(Sorted(SubSeq(s, 1, Len(s) - 1)), s[Len(s)])

RECURSIVE SortedSet(_)
\* sorted(the keys of a dict)
SortedSet(S) ==
    IF S = {} THEN <<>>
    ELSE LET m == CHOOSE x \in S : \A y \in S : x <= y
         IN  <<m>> \o SortedSet(S \ {m})

\* the number of True entries of a boolean mask: len([... if cond]), mask.sum()
CountOf(mask) == Cardinality({k \in 1..Len(mask) : mask[k]})

ScoreBinLabels == <<"0-2", "2-4", "4-6", "6-8", "8-10">>

\* mutant of ScoreBin: the last bin is half-open like the others, a score of 10 is in none
ScoreBinHalfOpen(score) ==
    IF score < 20 THEN 1
    ELSE IF score < 40 THEN 2
    ELSE IF score < 60 THEN 3
    ELSE IF score < 80 THEN 4
    ELSE IF score < 100 THEN 5
    ELSE 0

\* the bin of statistics["score_distribution"] a score is counted in, 0 when in none
ScoreBin(score) ==
    IF score < 20 THEN 1
    ELSE IF 20 <= score /\ score < 40 THEN 2
    ELSE IF 40 <= score /\ score < 60 THEN 3
    ELSE IF 60 <= score /\ score < 80 THEN 4
    ELSE IF 80 <= score /\ score <= 100 THEN 5
    ELSE 0

score_distribution(sc) ==
    [b \in 1..Len(ScoreBinLabels) |-> CountOf([at \in 1..Len(sc) |->
            LET s == sc[at] IN ScoreBin(s.score) = b])]

\* statistics: average and median in hundredths of a score point
statistics(sc) ==
    IF sc # <<>>
    THEN LET all_scores == [k \in 1..Len(sc) |-> sc[k].score]
             all_scores_sorted == Sorted(all_scores)
             median_index == Len(all_scores_sorted) \div 2
         IN  [average_score |-> RoundHalfEven(SumSeq(all_scores) * 10, Len(all_scores)),
              median_score |-> all_scores_sorted[median_index + 1] * 10,
              score_distribution |-> score_distribution(sc)]
    ELSE [average_score |-> 0, median_score |-> 0,
          score_distribution |-> [b \in 1..Len(ScoreBinLabels) |-> 0]]

\* categorize_relationships: the name of the circle of a score
Category(score) ==
    IF score >= 80 THEN "close"
    ELSE IF score >= 60 THEN "social"
    ELSE IF score >= 40 THEN "work"
    ELSE "general"

categorize_relationships(sc) ==
    LET cat(c) == SelectSeq(sc, LAMBDA f : Category(f.score) = c)
    IN  [categories |-> [c \in {"close", "social", "work", "general"} |-> cat(c)],
         summary |-> [c \in {"close", "social", "work", "general"} |-> Len(cat(c))]]

(***************************************************************************)
(* analyze_time_patterns.                                                  *)
(***************************************************************************)
\* the sum of entry["count"] over the entries selected by the boolean mask
SumCount(data, mask) ==
    SumSeq([k \in 1..Len(data) |-> IF mask[k] THEN data[k].count ELSE 0])

\* heatmap_data[weekday][hour]
HeatmapCell(data, weekday, hour) ==
    SumCount(data, [at \in 1..Len(data) |->
            LET e == data[at] IN e.weekday = weekday /\ e.hour = hour])

\* heatmap_formatted: one entry per weekday and hour, weekday-major
heatmap(data) ==
    [k \in 1..(7 * 24) |->
        LET weekday == (k - 1) \div 24
            hour == (k - 1) % 24
        IN  [weekday |-> weekday, hour |-> hour,
             value |-> HeatmapCell(data, weekday, hour)]]

\* mutant of LastMonths: the first 12 months are kept
LastMonthsOldest(sorted_months) ==
    IF Len(sorted_months) > 12 THEN SubSeq(sorted_months, 1, 12) ELSE sorted_months

\* sorted_months[-12:] if len(sorted_months) > 12 else sorted_months
LastMonths(sorted_months) ==
    IF Len(sorted_months) > 12
    THEN SubSeq(sorted_months, Len(sorted_months) - 11, Len(sorted_months))
    ELSE sorted_months

monthly_trend(data) ==
    LET sorted_months == SortedSet({data[k].month : k \in 1..Len(data)})
        last_12_months == LastMonths(sorted_months)
    IN  [k \in 1..Len(last_12_months) |->
            [month |-> last_12_months[k],
             count |-> SumCount(data, [at \in 1..Len(data) |->
                     LET e == data[at] IN e.month = last_12_months[k]])]]

\* growth in hundredths of a percent: round((curr - prev) / prev * 100, 2)
Growth(prev, curr) ==
    IF prev > 0 THEN RoundHalfEven((curr - prev) * 10000, prev) ELSE 0

monthly_growth(trend) ==
    [k \in 1..(IF Len(trend) = 0 THEN 0 ELSE Len(trend) - 1) |->
        [month |-> trend[k + 1].month,
         growth |-> Growth(trend[k].count, trend[k + 1].count)]]

\* max(distribution.items(), key=lambda x: x[1])[0]: of the keys with the highest
\* count, the one met first in the data
PeakKey(data, key) ==
    LET total(x) == SumCount(data, [at \in 1..Len(data) |-> data[at][key] = x])
        best == CHOOSE k \in 1..Len(data) :
                   /\ \A j \in 1..Len(data) : total(data[j][key]) <= total(data[k][key])
                   /\ \A j \in 1..(k - 1) : total(data[j][key]) < total(data[k][key])
    IN  data[best][key]

analyze_time_patterns(data) ==
    LET trend == monthly_trend(data)
        total == SumCount(data, [at \in 1..Len(data) |-> LET e == data[at] IN TRUE])
    IN  [heatmap |-> heatmap(data),
         monthly_trend |-> trend,
         monthly_growth |-> monthly_growth(trend),
         yearly_summary |->
             [y \in {data[k].year : k \in 1..Len(data)} |->
                 SumCount(data, [at \in 1..Len(data) |-> LET e == data[at] IN e.year = y])],
         peak_hour |-> IF data # <<>> THEN PeakKey(data, "hour") ELSE 12,
         peak_weekday |-> IF data # <<>> THEN PeakKey(data, "weekday") ELSE 0,
         total_active_hours |->
             Cardinality({h \in 0..23 : SumCount(data, [at \in 1..Len(data) |->
                     LET e == data[at] IN e.hour = h]) > 0}),
         \* in hundredths of a percent
         night_owl_score |->
             IF data # <<>>
             THEN RoundHalfEven(SumCount(data, [at \in 1..Len(data) |->
                     LET e == data[at] IN e.hour \in 0..5]) * 10000, total)
             ELSE 0]

(***************************************************************************)
(* calculate_social_health.  Indices are in thousandths.                   *)
(***************************************************************************)
Milli == 1000

\* np.std(score_values), population standard deviation, in thousandths of a point
StdDevMilli(values) ==
    LET n == Len(values)
        sq == [k \in 1..n |-> values[k] * values[k]]
        v == n * SumSeq(sq) - SumSeq(values) * SumSeq(values)
    IN  Isqrt(v * 10000) \div n

\* max(0, min(100, 100 - abs(std_dev - 2.5) * 20)), or 50 for a single score
diversity_index(sc) ==
    LET score_values == [k \in 1..Len(sc) |-> sc[k].score]
    IN  IF Len(score_values) > 1
        THEN Max(0, Min(100 * Milli,
                        100 * Milli - Abs(StdDevMilli(score_values) - 2500) * 20))
        ELSE 50 * Milli

\* max(0, min(100, 100 - abs(high_score_ratio - 0.25) * 200))
balance_index(sc) ==
    LET high_score_friends == CountOf([at \in 1..Len(sc) |-> LET s == sc[at] IN s.score >= 60])
    IN  Max(0, Min(100 * Milli,
                   100 * Milli
                     - (Abs(4 * high_score_friends - Len(sc)) * 50 * Milli) \div Len(sc)))

\* active_count / len(scores) * 100
maintenance_index(sc) ==
    (CountOf([at \in 1..Len(sc) |->
            LET s == sc[at] IN s.relationship_status = "active"]) * 100 * Milli) \div Len(sc)

\* min(100, np.mean(all_dimensions["emotion"]) * 10), or 50 without emotion values
emotional_index(all_dims) ==
    IF "emotion" \in DOMAIN all_dims /\ all_dims["emotion"] # <<>>
    THEN Min(100 * Milli,
             (SumSeq(all_dims["emotion"]) * Milli) \div Len(all_dims["emotion"]))
    ELSE 50 * Milli

\* diversity * 0.25 + balance * 0.25 + maintenance * 0.30 + emotional * 0.20
OverallHealth(diversity, balance, maintenance, emotional) ==
    (diversity * 25 + balance * 25 + maintenance * 30 + emotional * 20) \div 100

HealthLevel(overall_health) ==
    IF overall_health >= 80 * Milli THEN "excellent"
    ELSE IF overall_health >= 60 * Milli THEN "good"
    ELSE IF overall_health >= 40 * Milli THEN "fair"
    ELSE "needs improvement"

\* round(x, 1), the result still in thousandths
Round1(x) == RoundHalfEven(x, 100) * 100

\* mutant of Suggestions: the emotional suggestion is put first
SuggestionsEmotionalFirst(diversity, balance, maintenance, emotional, dormant_count) ==
    (IF emotional < 60 * Milli THEN <<[about |-> "emotional", dormant_count |-> 0]>> ELSE <<>>)
    \o (IF diversity < 60 * Milli THEN <<[about |-> "diversity", dormant_count |-> 0]>> ELSE <<>>)
    \o (IF balance < 60 * Milli THEN <<[about |-> "balance", dormant_count |-> 0]>> ELSE <<>>)
    \o (IF maintenance < 60 * Milli
        THEN <<[about |-> "maintenance", dormant_count |-> dormant_count]>> ELSE <<>>)

Suggestions(diversity, balance, maintenance, emotional, dormant_count) ==
    (IF diversity < 60 * Milli THEN <<[about |-> "diversity", dormant_count |-> 0]>> ELSE <<>>)
    \o (IF balance < 60 * Milli THEN <<[about |-> "balance", dormant_count |-> 0]>> ELSE <<>>)
    \o (IF maintenance < 60 * Milli
        THEN <<[about |-> "maintenance", dormant_count |-> dormant_count]>> ELSE <<>>)
    \o (IF emotional < 60 * Milli THEN <<[about |-> "emotional", dormant_count |-> 0]>> ELSE <<>>)

calculate_social_health(sc, all_dims, total_contacts) ==
    IF sc = <<>>
    THEN [overall_health |-> 0, diversity_index |-> 0, balance_index |-> 0,
          maintenance_index |-> 0, emotional_index |-> 0,
          health_level |-> "needs improvement", suggestions |-> <<>>]
    ELSE LET diversity == diversity_index(sc)
             balance == balance_index(sc)
             maintenance == maintenance_index(sc)
             emotional == emotional_index(all_dims)
             dormant_count ==
                 CountOf([at \in 1..Len(sc) |->
                         LET s == sc[at] IN s.relationship_status \in {"dormant", "lost"}])
             overall_health == OverallHealth(diversity, balance, maintenance, emotional)
             suggestions == Suggestions(diversity, balance, maintenance, emotional,
                                        dormant_count)
         IN  [overall_health |-> Round1(overall_health),
              diversity_index |-> Round1(diversity),
              balance_index |-> Round1(balance),
              maintenance_index |-> Round1(maintenance),
              emotional_index |-> Round1(emotional),
              health_level |-> HealthLevel(overall_health),
              suggestions |-> SubSeq(suggestions, 1, Min(3, Len(suggestions)))]

(***************************************************************************)
(* analyze_user_preference.  Averages and deviations in hundredths.        *)
(***************************************************************************)
Preference(values) ==
    IF values # <<>>
    THEN [average |-> RoundHalfEven(SumSeq(values) * 10, Len(values)),
          std |-> RoundHalfEven(StdDevMilli(values), 10)]
    ELSE [average |-> 0, std |-> 0]

analyze_user_preference(all_dims, analyzed) ==
    IF analyzed = 0
    THEN [user_type |-> "unknown", preferences |-> <<>>, analyzed_count |-> 0]
    ELSE LET preference == [d \in Dims |-> Preference(all_dims[d])]
             \* max() keeps the first of the dimensions with the highest average
             max_dim == CHOOSE k \in 1..Len(DimOrder) :
                 /\ \A j \in 1..Len(DimOrder) :
                        preference[DimOrder[j]].average <= preference[DimOrder[k]].average
                 /\ \A j \in 1..(k - 1) :
                        preference[DimOrder[j]].average < preference[DimOrder[k]].average
         IN  [user_type |-> DimOrder[max_dim], preferences |-> preference,
              analyzed_count |-> analyzed]

(***************************************************************************)
(* _compute_interaction_analysis.                                          *)
(***************************************************************************)
\* pd.Timedelta(minutes=45), in seconds
SESSION_GAP == 2700

\* _ensure_datetime_series: a datetime64 column is kept; a numeric column is read as
\* epoch seconds (the millisecond unit needs a value above 1e12, beyond the instants
\* of this model); what cannot be read becomes NaT
ensure_datetime(dtype, v) == IF v = NaT THEN NaT ELSE v

\* df[is_self_col].astype(int), or zeros when the frame has no sender column
IsSelfOf(df, row) == IF FirstColumn(IsSelfNames, df) # None THEN row.is_self ELSE 0

RECURSIVE InsertByDt(_, _)
InsertByDt(sorted, x) ==
    IF sorted = <<>> THEN <<x>>
    ELSE IF Head(sorted).dt <= x.dt THEN <<Head(sorted)>> \o InsertByDt(Tail(sorted), x)
         ELSE <<x>> \o sorted

RECURSIVE SortByDt(_)
\* sort_values("_dt"); rows with equal instants keep their order
SortByDt(rows) ==
    IF rows = <<>> THEN <<>>
    ELSE InsertByDt(SortByDt(SubSeq(rows, 1, Len(rows) - 1)), rows[Len(rows)])

\* df.assign(_dt=dt, _is_self=is_self).dropna(subset=["_dt"]).sort_values("_dt")
Prepare(df) ==
    LET with_dt == [k \in 1..Len(df.rows) |->
                       [n |-> df.rows[k].n,
                        dt |-> ensure_datetime(df.dtype, df.rows[k].ts),
                        is_self |-> IsSelfOf(df, df.rows[k]),
                        type |-> df.rows[k].type,
                        subtype |-> df.rows[k].subtype,
                        text |-> df.rows[k].text]]
    IN  SortByDt(SelectSeq(with_dt, LAMBDA r : notna(r.dt)))

\* mutant of GapStartsSession: a gap of exactly SESSION_GAP starts a session too
GapStartsSessionInclusive(gap) == gap >= SESSION_GAP

\* gap.isna() | (gap > SESSION_GAP), for the gap to the preceding row
GapStartsSession(gap) == gap > SESSION_GAP

StartsSession(rows, k) ==
    k = 1 \/ GapStartsSession(rows[k].dt - rows[k - 1].dt)

RECURSIVE SessionIdsFrom(_, _, _, _)
SessionIdsFrom(rows, k, last, acc) ==
    IF k > Len(rows) THEN acc
    ELSE LET id == last + (IF StartsSession(rows, k) THEN 1 ELSE 0)
         IN  SessionIdsFrom(rows, k + 1, id, Append(acc, id))

\* (gap.isna() | (gap > SESSION_GAP)).cumsum(): the session of every row
session_id(rows) == SessionIdsFrom(rows, 1, 0, <<>>)

RECURSIVE GroupFrom(_, _, _, _)
GroupFrom(rows, ids, k, acc) ==
    IF k > Len(rows) THEN acc
    ELSE IF ids[k] > Len(acc) THEN GroupFrom(rows, ids, k + 1, Append(acc, <<rows[k]>>))
    ELSE GroupFrom(rows, ids, k + 1,
                   [acc EXCEPT ![ids[k]] = Append(@, rows[k])])

\* df.groupby("_session"): the sessions in order, each the sequence of its rows
Sessions(rows) == GroupFrom(rows, session_id(rows), 1, <<>>)

\* df["_is_self"].ne(df["_is_self"].shift(1)): true at the first row too
Flip(rows, k) == k = 1 \/ rows[k].is_self # rows[k - 1].is_self

\* df.loc[flip, "_dt"]
FlipTimes(rows) ==
    LET idx == SortedSet({k \in 1..Len(rows) : Flip(rows, k)})
    IN  [j \in 1..Len(idx) |-> rows[idx[j]].dt]

\* (df.loc[flip, "_dt"] - df.loc[flip, "_dt"].shift(1)).dropna().dt.total_seconds()
Delays(rows) ==
    LET ft == FlipTimes(rows)
    IN  [j \in 1..(IF Len(ft) = 0 THEN 0 ELSE Len(ft) - 1) |-> ft[j + 1] - ft[j]]

DelayLabels == <<"<1m", "1-5m", "5-10m", "10-30m", "30-60m", "1-3h", ">3h">>
DelayEdges == <<0, 60, 300, 600, 1800, 3600, 10800>>

\* pd.cut(delays, bins, right=False): the bin [edge, next edge) of a delay, 0 when in none
DelayBin(d) ==
    IF d < DelayEdges[1] THEN 0
    ELSE CHOOSE b \in 1..Len(DelayEdges) :
            /\ DelayEdges[b] <= d
            /\ (b = Len(DelayEdges) \/ d < DelayEdges[b + 1])

LenLabels == <<"1", "2-3", "4-6", "7-10", ">10">>
LenEdges == <<1, 2, 4, 7, 11>>

\* pd.cut(session_sizes, len_bins, right=False, include_lowest=True)
LenBin(size) ==
    IF size < LenEdges[1] THEN 0
    ELSE CHOOSE b \in 1..Len(LenEdges) :
            /\ LenEdges[b] <= size
            /\ (b = Len(LenEdges) \/ size < LenEdges[b + 1])

\* cats.value_counts().reindex(labels, fill_value=0)
BinCounts(cats, nbins) ==
    [b \in 1..nbins |-> Cardinality({k \in 1..Len(cats) : cats[k] = b})]

\* np.median, in hundredths
MedianCenti(values) ==
    LET s == Sorted(values)
        n == Len(s)
    IN  IF n % 2 = 1 THEN s[(n + 1) \div 2] * 100
        ELSE (s[n \div 2] + s[n \div 2 + 1]) * 50

\* np.percentile(values, 90), linear interpolation, in hundredths
Percentile90Centi(values) ==
    LET s == Sorted(values)
        n == Len(s)
        pos10 == 9 * (n - 1)
        k == pos10 \div 10
        f == pos10 % 10
    IN  IF f = 0 THEN s[k + 1] * 100
        ELSE s[k + 1] * 100 + f * 10 * (s[k + 2] - s[k + 1])

NoInter == [empty |-> TRUE]

\* rates are in ten-thousandths (round(x, 4)), seconds in hundredths (round(x, 2))
_compute_interaction_analysis(df) ==
    IF NRows(df.rows) = 0 THEN NoInter
    ELSE IF FirstColumn(TsNames, df) = None THEN NoInter
    ELSE
    LET rows == Prepare(df)
        sess == Sessions(rows)
        self_sessions == CountOf([at \in 1..Len(sess) |->
                LET g == sess[at] IN g[1].is_self = 1])
        friend_sessions == CountOf([at \in 1..Len(sess) |->
                LET g == sess[at] IN g[1].is_self = 0])
        total_sessions == self_sessions + friend_sessions
        delays == Delays(rows)
        session_sizes == [s \in 1..Len(sess) |-> NRows(sess[s])]
        one_way == CountOf([at \in 1..Len(sess) |->
                LET g == sess[at] IN \A a, b \in 1..Len(g) : g[a].is_self = g[b].is_self])
    IN  [empty |-> FALSE,
         initiator |->
             [self_sessions |-> self_sessions,
              friend_sessions |-> friend_sessions,
              total_sessions |-> total_sessions,
              self_rate |-> IF total_sessions > 0
                            THEN RoundHalfEven(self_sessions * 10000, total_sessions) ELSE 0],
         reply_delay |->
             [bins |-> IF Len(delays) > 0
                       THEN BinCounts([k \in 1..Len(delays) |-> DelayBin(delays[k])], Len(DelayLabels))
                       ELSE [b \in 1..Len(DelayLabels) |-> 0],
              median_seconds |-> IF Len(delays) > 0 THEN MedianCenti(delays) ELSE 0,
              p90_seconds |-> IF Len(delays) > 0 THEN Percentile90Centi(delays) ELSE 0,
              pairs |-> Len(delays)],
         conversation_length |->
             [bins |-> IF Len(session_sizes) > 0
                       THEN BinCounts([k \in 1..Len(session_sizes) |-> LenBin(session_sizes[k])], Len(LenLabels))
                       ELSE [b \in 1..Len(LenLabels) |-> 0],
              mean |-> IF Len(session_sizes) > 0
                       THEN <<SumSeq(session_sizes), Len(session_sizes)>> ELSE <<0, 1>>,
              median |-> IF Len(session_sizes) > 0 THEN MedianCenti(session_sizes) ELSE 0,
              sessions |-> total_sessions],
         directionality |->
             [one_way_sessions |-> one_way,
              two_way_sessions |-> total_sessions - one_way,
              one_way_rate |-> IF total_sessions > 0
                               THEN RoundHalfEven(one_way * 10000, total_sessions) ELSE 0]]

(***************************************************************************)
(* _compute_achievements.  A progress value is an exact fraction.          *)
(***************************************************************************)
RECURSIVE GCD(_, _)
GCD(a, b) == IF b = 0 THEN a ELSE GCD(b, a % b)

\* the fraction n/d, d > 0, in lowest terms
Rat(n, d) ==
    LET g == GCD(Abs(n), d)
    IN  [num |-> n \div g, den |-> d \div g]

RatZero == Rat(0, 1)
RatOne == Rat(1, 1)
RatMul(a, b) == Rat(a.num * b.num, a.den * b.den)
RatSub(a, b) == Rat(a.num * b.den - b.num * a.den, a.den * b.den)
RatAbs(a) == [num |-> Abs(a.num), den |-> a.den]
RatLe(a, b) == a.num * b.den <= b.num * a.den
\* Python's min(a, b) and max(a, b): the first argument unless the second is strictly beyond it
RatMin(a, b) == IF RatLe(a, b) THEN a ELSE b
RatMax(a, b) == IF RatLe(b, a) THEN a ELSE b

\* mutant of ExtendsRun: a single missing day does not end the run
ExtendsRunOverGap(prev, cur) == cur - prev <= 2

\* do two successive dates extend the run: (days.iloc[i] - days.iloc[i - 1]).days == 1
ExtendsRun(prev, cur) == cur - prev = 1

RECURSIVE StreakFrom(_, _, _, _)
\* the loop of lines 253-258 from index k on
StreakFrom(days, k, streak, best) ==
    IF k > Len(days) THEN best
    ELSE IF ExtendsRun(days[k - 1], days[k])
         THEN StreakFrom(days, k + 1, streak + 1, Max(best, streak + 1))
         ELSE StreakFrom(days, k + 1, 1, best)

\* days: the distinct dates, ascending
max_streak(days) == IF Len(days) = 0 THEN 0 ELSE StreakFrom(days, 2, 1, 1)

\* df["_dt"].dt.normalize().drop_duplicates().sort_values()
Days(rows) == SortedSet({DateOf(rows[k].dt) : k \in 1..Len(rows)})

\* the number of messages selected by the boolean mask
CountRows(rows, mask) ==
    SumSeq([k \in 1..Len(rows) |-> IF mask[k] THEN rows[k].n ELSE 0])

\* (df[type_col] == 1) | ((df[type_col] == 49) & (df[subtype_col] == 57))
IsText(df, r) ==
    IF FirstColumn(SubTypeNames, df) # None
    THEN r.type = 1 \/ (r.type = 49 /\ r.subtype = 57)
    ELSE r.type = 1

\* mutant of Clamp: only the upper limit is applied
ClampAbove(progress) == RatMin(RatOne, progress)

\* max(0.0, min(1.0, progress))
Clamp(progress) == RatMax(RatZero, RatMin(RatOne, progress))

mk(key, cond, progress) ==
    [key |-> key, achieved |-> cond, progress |-> Clamp(progress)]

_compute_achievements(df, inter) ==
    IF NRows(df.rows) = 0 THEN <<>>
    ELSE IF FirstColumn(TsNames, df) = None THEN <<>>
    ELSE
    LET rows == Prepare(df)
        has_text == FirstColumn(TextNames, df) # None
        has_type == FirstColumn(TypeNames, df) # None
        deep_night_count == CountRows(rows, [at \in 1..Len(rows) |->
                LET r == rows[at] IN HourOf(r.dt) >= 0 /\ HourOf(r.dt) <= 5])
        total_msgs == NRows(rows)
        emoji_sum == SumSeq([k \in 1..Len(rows) |-> rows[k].n * rows[k].text.emojis])
        len_sum == SumSeq([k \in 1..Len(rows) |-> rows[k].n * rows[k].text.len])
        emoji_rate == IF has_text /\ total_msgs > 0 THEN Rat(emoji_sum, total_msgs) ELSE RatZero
        \* the mean of no lengths is NaN
        avg_len_nan == has_text /\ total_msgs = 0
        avg_len == IF has_text /\ total_msgs > 0 THEN Rat(len_sum, total_msgs) ELSE RatZero
        streak == max_streak(Days(rows))
        sessions == IF inter.empty THEN 0 ELSE inter.conversation_length.sessions
        initiator_self_rate == IF inter.empty THEN 0 ELSE inter.initiator.self_rate
        median_delay == IF inter.empty THEN 0 ELSE inter.reply_delay.median_seconds
        non_text_count == IF has_type THEN CountRows(rows, [at \in 1..Len(rows) |->
                LET r == rows[at] IN ~IsText(df, r)]) ELSE 0
        non_text_ratio == IF has_type /\ total_msgs > 0
                          THEN Rat(non_text_count, total_msgs) ELSE RatZero
        send_ratio == IF total_msgs > 0
                      THEN Rat(CountRows(rows, [at \in 1..Len(rows) |->
                              LET r == rows[at] IN r.is_self = 1]), total_msgs)
                      ELSE RatZero
        diff == RatAbs(RatSub(send_ratio, Rat(1, 2)))
    IN  << mk("night_guard", deep_night_count >= 100, Rat(deep_night_count, 100)),
           mk("emoji_master", RatLe(Rat(15, 100), emoji_rate),
              RatMul(emoji_rate, Rat(100, 15))),
           mk("long_streak", streak >= 30, Rat(streak, 30)),
           mk("initiator", initiator_self_rate >= 6000 /\ sessions >= 30,
              RatMul(Rat(initiator_self_rate, 6000), RatMin(RatOne, Rat(sessions, 30)))),
           mk("fast_reply", median_delay <= 6000 /\ sessions >= 30,
              RatMin(RatOne, Rat(6000, Max(100, median_delay)))),
           mk("long_text", ~avg_len_nan /\ RatLe(Rat(30, 1), avg_len) /\ total_msgs >= 500,
              RatMul(IF avg_len_nan THEN RatOne
                     ELSE RatMin(RatOne, RatMul(avg_len, Rat(1, 30))),
                     RatMin(RatOne, Rat(total_msgs, 500)))),
           mk("multimedia", RatLe(Rat(2, 10), non_text_ratio) /\ non_text_count >= 50,
              RatMul(RatMin(RatOne, RatMul(non_text_ratio, Rat(10, 2))),
                     RatMin(RatOne, Rat(non_text_count, 50)))),
           mk("balanced", RatLe(diff, Rat(1, 10)) /\ total_msgs >= 200,
              RatMul(RatSub(RatOne, RatMul(diff, Rat(10, 1))),
                     RatMin(RatOne, Rat(total_msgs, 200)))) >>

(***************************************************************************)
(* prepare_network_graph_data.  Scores are in tenths; symbolSize is kept   *)
(* in whole units (rounded down), line widths in twentieths, opacities in  *)
(* hundredths.  The angle np.random.random() * 2 * pi of the k-th node is   *)
(* the k-th draw of the generator, here a number of quarter turns that     *)
(* depends on the generator's state when the function is entered.          *)
(***************************************************************************)
GraphCap == 50

\* mutant of GraphScores: the cut keeps one contact more than the cap
GraphScoresOffByOne(sc) == IF Len(sc) > GraphCap THEN SubSeq(sc, 1, GraphCap + 1) ELSE sc

\* scores[:50] if len(scores) > 50 else scores
GraphScores(sc) == IF Len(sc) > GraphCap THEN SubSeq(sc, 1, GraphCap) ELSE sc

GraphCategories == <<"close", "social", "work", "general">>

GraphCategory(score) ==
    IF score >= 80 THEN 0
    ELSE IF score >= 60 THEN 1
    ELSE IF score >= 40 THEN 2
    ELSE 3

\* ExpThird[k] is the least integer x with np.log(x) * 3 >= k
ExpThird ==
    << 2, 2, 3, 4, 6, 8, 11, 15, 21, 29, 40, 55, 77, 107, 149, 208, 290, 404, 564, 786,
       1097, 1531, 2136, 2981, 4161, 5807, 8104, 11309, 15783, 22027 >>

\* min(30, max(10, np.log(message_count + 1) * 3)), rounded down
SymbolSize(message_count) ==
    Min(30, Max(10, Cardinality({k \in 1..Len(ExpThird) : ExpThird[k] <= message_count + 1})))

\* the states the random generator may be in
Seeds == {0, 1}

\* the k-th angle drawn from a generator in state seed, in quarter turns
Angle(seed, k) == (seed + k) % 4

Cos(quarters) == <<1, 0, -1, 0>>[quarters + 1]
Sin(quarters) == <<0, 1, 0, -1>>[quarters + 1]

CenterNode ==
    [id |-> "center", name |-> "me", symbolSize |-> 50, category |-> -1,
     x |-> 0, y |-> 0, fixed |-> TRUE]

\* the node of one friend; display names of the model are shorter than 10 characters,
\* so that display_name[:10] is the whole name
FriendNode(friend, angle) ==
    LET distance == (100 - friend.score) * 3
    IN  [id |-> friend.user_name,
         name |-> friend.display_name,
         value |-> friend.score,
         symbolSize |-> SymbolSize(friend.message_count),
         category |-> GraphCategory(friend.score),
         x |-> distance * Cos(angle),
         y |-> distance * Sin(angle)]

FriendEdge(friend) ==
    [source |-> "center",
     target |-> friend.user_name,
     value |-> friend.score,
     lineStyle |-> [width |-> Min(100, friend.score), opacity |-> Min(100, friend.score)]]

\* None is the empty tuple here, as for time_analysis
prepare_network_graph_data(sc, seed) ==
    IF sc = <<>> THEN <<>>
    ELSE LET graph_scores == GraphScores(sc)
         IN  [nodes |-> <<CenterNode>>
                        \o [k \in 1..Len(graph_scores) |->
                               FriendNode(graph_scores[k], Angle(seed, k))],
              edges |-> [k \in 1..Len(graph_scores) |-> FriendEdge(graph_scores[k])],
              categories |-> GraphCategories]

(***************************************************************************)
(* The request handlers.  batch_analysis runs as BatchStart, one           *)
(* BatchIterate per contact, and BatchFinish.                              *)
(***************************************************************************)
HTTPException(status_code) == [status |-> status_code, body |-> <<>>]
NoResponse == [status |-> 0, body |-> <<>>]
Ok(body) == [status |-> 200, body |-> body]

TopNValues == {0, 1}
LimitValues == {0, 2}

Init ==
    /\ pc = "idle"
    /\ endpoint = "none"
    /\ params = [top_n |-> 0, limit |-> 0]
    /\ contacts = <<>>
    /\ i = 0
    /\ outcome = NoOutcome
    /\ scores = <<>>
    /\ all_dimensions = [d \in Dims |-> <<>>]
    /\ all_time_data = <<>>
    /\ analyzed_count = 0
    /\ failed_count = 0
    /\ messages = EmptyFrame
    /\ response = NoResponse

\* lines 592-603: the contact list is fetched and the accumulators are created
BatchStart ==
    /\ pc = "idle"
    /\ \E n \in 0..MaxContacts, top_n \in TopNValues, limit \in LimitValues :
          /\ contacts' = [k \in 1..n |-> Contact(k)]
          /\ params' = [top_n |-> top_n, limit |-> limit]
    /\ endpoint' = "batch_analysis"
    /\ pc' = "loop"
    /\ UNCHANGED <<i, outcome, scores, all_dimensions, all_time_data, analyzed_count,
                   failed_count, messages, response>>

\* db.get_contacts() raises: the outer except answers 500
BatchContactsFail ==
    /\ pc = "idle"
    /\ endpoint' = "batch_analysis"
    /\ response' = HTTPException(500)
    /\ pc' = "done"
    /\ UNCHANGED <<params, contacts, i, outcome, scores, all_dimensions, all_time_data,
                   analyzed_count, failed_count, messages>>

Accumulators ==
    [scores |-> scores, all_dimensions |-> all_dimensions, all_time_data |-> all_time_data,
     analyzed_count |-> analyzed_count, failed_count |-> failed_count]

\* lines 605-657: the loop body for the next contact
BatchIterate ==
    /\ pc = "loop"
    /\ i < Len(contacts_to_analyze)
    /\ \E o \in Outcomes :
          LET acc == ProcessContact(Accumulators, contacts_to_analyze[i + 1], o)
          IN  /\ outcome' = o
              /\ scores' = acc.scores
              /\ all_dimensions' = acc.all_dimensions
              /\ all_time_data' = acc.all_time_data
              /\ analyzed_count' = acc.analyzed_count
              /\ failed_count' = acc.failed_count
    /\ i' = i + 1
    /\ UNCHANGED <<pc, endpoint, params, contacts, messages, response>>

\* scores[:top_n] if top_n > 0 else scores
TopFriends(sc, top_n) ==
    IF top_n > 0 THEN SubSeq(sc, 1, Min(top_n, Len(sc))) ELSE sc

BatchReport(sc, seed) ==
    [top_friends |-> TopFriends(sc, params.top_n),
     total_contacts |-> Len(contacts),
     total_analyzed |-> analyzed_count,
     failed_count |-> failed_count,
     statistics |-> statistics(sc),
     categories |-> categorize_relationships(sc),
     user_preference |-> analyze_user_preference(all_dimensions, analyzed_count),
     time_analysis |->
         IF all_time_data # <<>> THEN analyze_time_patterns(all_time_data) ELSE <<>>,
     social_health |-> calculate_social_health(sc, all_dimensions, Len(contacts)),
     network_graph |-> prepare_network_graph_data(sc, seed)]

\* lines 659-701: the sort, the statistics and the report
BatchFinish ==
    /\ pc = "loop"
    /\ i = Len(contacts_to_analyze)
    /\ scores' = SortScores(scores)
    /\ \E seed \in Seeds : response' = Ok(BatchReport(scores', seed))
    /\ pc' = "done"
    /\ UNCHANGED <<endpoint, params, contacts, i, outcome, all_dimensions, all_time_data,
                   analyzed_count, failed_count, messages>>

(***************************************************************************)
(* The single-contact queries calculate_rscore and export_report, and the  *)
(* message collections they are asked about.                               *)
(***************************************************************************)
\* instants of short conversations: gaps of 30 s, of exactly 45 min and of 45 min 1 s
Times == {0, 30, 2700, 5401, NaT}

\* a message of a short conversation: own messages are text, the friend's are images
ShortRow(t, is_self) ==
    IF is_self = 1 THEN Row(1, t, 1, 1, 0, Text(40, 1))
    ELSE Row(1, t, 0, 3, 0, Text(0, 0))

ShortRows == {ShortRow(t, is_self) : t \in Times, is_self \in {0, 1}}

\* every conversation of at most MaxMsgs messages, in any order
ShortFrames ==
    {Frame(FullColumns, "int64", rows) :
        rows \in UNION {[1..n -> ShortRows] : n \in 0..MaxMsgs}}

\* the same conversation under other column layouts
SchemaFrames ==
    LET rows == << ShortRow(0, 1), ShortRow(30, 0), ShortRow(NaT, 1), ShortRow(5401, 1) >>
    IN  { Frame(AltColumns, "int64", rows),
          Frame(BareColumns, "datetime64", rows),
          Frame(NoTsColumns, "int64", rows),
          Frame(FullColumns, "datetime64", <<ShortRow(NaT, 0), ShortRow(NaT, 1)>>) }

\* what one day of a long history holds: n equal messages at one hour
NightSelf == [n |-> 4, hour |-> 2, is_self |-> 1, type |-> 1, subtype |-> 0, text |-> Text(40, 1)]
DayFriend == [n |-> 5, hour |-> 14, is_self |-> 0, type |-> 3, subtype |-> 0, text |-> Text(0, 0)]
QuoteSelf == [n |-> 17, hour |-> 5, is_self |-> 1, type |-> 49, subtype |-> 57, text |-> Text(31, 0)]
DayKinds == {NightSelf, DayFriend, QuoteSelf}

\* length consecutive days from start_day on, each with kind.n messages
RunRows(start_day, length, kind) ==
    [k \in 1..length |->
        Row(kind.n, (start_day + k - 1) * SecondsPerDay + kind.hour * SecondsPerHour,
            kind.is_self, kind.type, kind.subtype, kind.text)]

FirstRunLengths == {1, 29, 30, 31}
SecondRunLengths == {0, 1, 30}
RunGaps == {1, 2}

\* long histories: one or two runs of consecutive days, the second run starting
\* gap days after the last day of the first, stored in either order
RunFrames ==
    {Frame(FullColumns, "int64",
           LET r1 == RunRows(1, l1, k1)
               r2 == RunRows(l1 + gap, l2, k2)
           IN  IF swapped THEN r2 \o r1 ELSE r1 \o r2) :
        l1 \in FirstRunLengths, l2 \in SecondRunLengths, gap \in RunGaps,
        k1 \in DayKinds, k2 \in DayKinds, swapped \in BOOLEAN}

\* a result of the base scorer that RScoreResponse accepts
QueryResult(df) ==
    [total_score |-> 60,
     dimensions |-> Dimensions(50, 60, 70, 60),
     details |-> <<>>,
     milestones |-> <<>>,
     statistics |-> [total_messages |-> NRows(df.rows)],
     relationship_status |-> "active",
     freshness |-> 5]

\* the fields RScoreResponse requires of the result
ResponseFields ==
    {"total_score", "dimensions", "details", "milestones", "statistics",
     "relationship_status", "freshness", "interaction_analysis", "achievements"}

\* what the store and the scorer may answer to a single-contact query
QueryOutcomes ==
    {Outcome(TRUE, EmptyFrame, FALSE, NoResult)}
    \cup {Outcome(FALSE, df, FALSE, QueryResult(df)) :
             df \in ShortFrames \cup SchemaFrames \cup RunFrames}
    \cup UNION {{Outcome(FALSE, df, TRUE, NoResult),
                 Outcome(FALSE, df, FALSE, [total_score |-> 60])} : df \in SchemaFrames}

\* result with result["interaction_analysis"] and result["achievements"] set
Analysed(result, df) ==
    LET inter == _compute_interaction_analysis(df)
    IN  [interaction_analysis |-> inter,
         achievements |-> _compute_achievements(df, inter)] @@ result

\* lines 569-585; raised is the HTTPException the try block raised, if any
calculate_rscore_response(o) ==
    IF o.fetch_raises THEN HTTPException(500)
    ELSE IF IsEmpty(o.messages) THEN HTTPException(404)      \* except HTTPException: raise
    ELSE IF o.scorer_raises THEN HTTPException(500)
    ELSE LET result == Analysed(o.result, o.messages)
         IN  IF ResponseFields \subseteq DOMAIN result THEN Ok(result)
             ELSE HTTPException(500)                         \* RScoreResponse(**result) fails

\* lines 720-733: the only handler is "except Exception", which also catches the
\* HTTPException raised for an empty collection
export_report_response(o) ==
    IF o.fetch_raises THEN HTTPException(500)
    ELSE IF IsEmpty(o.messages) THEN HTTPException(500)
    ELSE IF o.scorer_raises THEN HTTPException(500)
    ELSE Ok([type |-> "json", data |-> Analysed(o.result, o.messages)])

CalculateRScore ==
    /\ pc = "idle"
    /\ \E o \in QueryOutcomes :
          /\ outcome' = o
          /\ messages' = o.messages
          /\ response' = calculate_rscore_response(o)
    /\ endpoint' = "calculate_rscore"
    /\ pc' = "done"
    /\ UNCHANGED <<params, contacts, i, scores, all_dimensions, all_time_data,
                   analyzed_count, failed_count>>

ExportReport ==
    /\ pc = "idle"
    /\ \E o \in QueryOutcomes :
          /\ outcome' = o
          /\ messages' = o.messages
          /\ response' = export_report_response(o)
    /\ endpoint' = "export_report"
    /\ pc' = "done"
    /\ UNCHANGED <<params, contacts, i, scores, all_dimensions, all_time_data,
                   analyzed_count, failed_count>>

Next == BatchStart \/ BatchContactsFail \/ BatchIterate \/ BatchFinish
            \/ CalculateRScore \/ ExportReport

Spec == Init /\ [][Next]_vars

(***************************************************************************)
(* Properties.                                                             *)
(***************************************************************************)
BatchDone == pc = "done" /\ endpoint = "batch_analysis" /\ response.status = 200
QueryDone == pc = "done" /\ endpoint \in {"calculate_rscore", "export_report"}
QueryOk == QueryDone /\ response.status = 200
QueryBody == IF endpoint = "export_report" THEN response.body.data ELSE response.body
\* the query produced an interaction profile
Profiled == QueryOk /\ ~QueryBody.interaction_analysis.empty

\* processing the contact raised: in the fetch, in the scorer or while its result was read
Raised(o) ==
    \/ o.fetch_raises
    \/ /\ ~IsEmpty(o.messages)
       /\ \/ o.scorer_raises
          \/ SummaryRaises(o.result)
          \/ FirstMissingDim(o.result.dimensions) # 0

\* the step is the loop body for one contact
IterationStep == pc = "loop" /\ i' = i + 1

\* C1: a contact whose processing raises adds one to failed_count, adds nothing to the
\* score list, the dimension arrays or the time tuples, and the loop goes on.
C1_FailedContactLeavesNothing ==
    [][(IterationStep /\ Raised(outcome')) =>
          /\ failed_count' = failed_count + 1
          /\ scores' = scores
          /\ all_dimensions' = all_dimensions
          /\ all_time_data' = all_time_data
          /\ analyzed_count' = analyzed_count
          /\ pc' = "loop"]_vars

\* C2: a contact with an empty message collection is skipped: the score list, the
\* dimension arrays, the time tuples, failed_count and analyzed_count keep their values.
C2_EmptyContactSkipped ==
    [][(IterationStep /\ ~outcome'.fetch_raises /\ IsEmpty(outcome'.messages)) =>
          UNCHANGED <<scores, all_dimensions, all_time_data, failed_count,
                      analyzed_count>>]_vars

\* an empty contact was skipped in second position, after an analyzed one
C2_Witness ==
    /\ pc = "loop" /\ i = 2
    /\ ~outcome.fetch_raises /\ IsEmpty(outcome.messages)
    /\ analyzed_count = 1 /\ Len(scores) = 1 /\ failed_count = 0

\* C3: a single-contact query about a contact without messages is answered 404,
\* never 500.
C3_NoHistoryIsNotFound ==
    (QueryDone /\ ~outcome.fetch_raises /\ IsEmpty(messages)) => response.status = 404

\* the messages of the query as the analysis sees them: valid instants, in time order
QueryRows == Prepare(messages)

\* the gap of record k to the record before it
GapBefore(rows, k) == rows[k].dt - rows[k - 1].dt

\* record k is in another session than the record before it
SessionChangesAt(rows, k) == session_id(rows)[k] # session_id(rows)[k - 1]

\* C4 as stated: a new session starts at record 0 and at exactly the records whose gap
\* to the preceding record is at least 45 minutes, so that consecutive messages of one
\* session are less than 45 minutes apart.
C4_BoundaryAtGapOfAtLeast45Min ==
    Profiled =>
        LET rows == QueryRows
        IN  /\ rows # <<>> => session_id(rows)[1] = 1
            /\ \A k \in 2..Len(rows) :
                   SessionChangesAt(rows, k) <=> GapBefore(rows, k) >= 45 * 60

\* C4 amended: a new session starts at record 0 and at exactly the records whose gap to
\* the preceding record is strictly greater than 45 minutes; consecutive messages of
\* one session are at most 45 minutes apart, and the reported number of sessions is
\* the number of these starts.
C4_BoundaryAtGapAbove45Min ==
    Profiled =>
        LET rows == QueryRows
            starts == {k \in 1..Len(rows) : k = 1 \/ GapBefore(rows, k) > 45 * 60}
        IN  /\ rows # <<>> => session_id(rows)[1] = 1
            /\ \A k \in 2..Len(rows) :
                   /\ SessionChangesAt(rows, k) <=> k \in starts
                   /\ ~SessionChangesAt(rows, k) => GapBefore(rows, k) <= 45 * 60
            /\ QueryBody.interaction_analysis.conversation_length.sessions
                   = Cardinality(starts)

\* a conversation with a gap of exactly 45 minutes, which starts no session, followed
\* by a gap of 45 minutes and a second, which starts one
C4_Witness ==
    /\ Profiled
    /\ Len(QueryRows) = 3
    /\ GapBefore(QueryRows, 2) = 45 * 60 /\ ~SessionChangesAt(QueryRows, 2)
    /\ GapBefore(QueryRows, 3) = 45 * 60 + 1 /\ SessionChangesAt(QueryRows, 3)

\* the records, other than the first, whose sender differs from the record before
SenderChanges(rows) == {k \in 2..Len(rows) : rows[k].is_self # rows[k - 1].is_self}

\* the gaps of the sender changes to the record just before each, in time order
AdjacentDelays(rows) ==
    LET idx == SortedSet(SenderChanges(rows))
    IN  [j \in 1..Len(idx) |-> GapBefore(rows, idx[j])]

\* C5: there is one reply pair per sender change, and its delay is the gap between the
\* message that changes the sender and the message just before it, also after a run of
\* several messages of the other sender.
C5_DelayIsGapToPrecedingMessage ==
    Profiled =>
        LET rows == QueryRows
            reply_delay == QueryBody.interaction_analysis.reply_delay
        IN  /\ reply_delay.pairs = Cardinality(SenderChanges(rows))
            /\ Delays(rows) = AdjacentDelays(rows)
            /\ reply_delay.median_seconds =
                   (IF SenderChanges(rows) = {} THEN 0
                    ELSE MedianCenti(AdjacentDelays(rows)))

\* C6: the counts of every histogram add up to the number of events it was built
\* from: reply-delay buckets to the reply pairs, session-length buckets to the
\* sessions, score bins to the contact summaries, heatmap cells to the time tuples.
C6_HistogramsAddUp ==
    /\ Profiled =>
          LET inter == QueryBody.interaction_analysis
              rows == QueryRows
          IN  /\ SumSeq(inter.reply_delay.bins) = inter.reply_delay.pairs
              /\ inter.reply_delay.pairs = Cardinality(SenderChanges(rows))
              /\ SumSeq(inter.conversation_length.bins) = inter.conversation_length.sessions
              /\ inter.conversation_length.sessions = Len(Sessions(rows))
    /\ BatchDone =>
          /\ SumSeq(response.body.statistics.score_distribution) = Len(scores)
          /\ all_time_data # <<>> =>
                SumSeq([k \in 1..(7 * 24) |-> response.body.time_analysis.heatmap[k].value])
                    = Len(all_time_data)

\* a batch with a score of 10, a score on a bin edge and tuples in different cells
C6_Witness ==
    /\ BatchDone
    /\ \E a, b \in 1..Len(scores) : scores[a].score = 100 /\ scores[b].score = 60
    /\ \E a, b \in 1..Len(all_time_data) : all_time_data[a].hour # all_time_data[b].hour

\* C7: after the loop the summaries are in descending score order, and summaries of
\* equal score are in the order in which their contacts were iterated.
C7_SortedDescendingStable ==
    [][(pc = "loop" /\ pc' = "done") =>
          LET before(x) == CHOOSE k \in 1..Len(scores) : scores[k] = x
          IN  /\ Len(scores') = Len(scores)
              /\ {scores'[k] : k \in 1..Len(scores')} = {scores[k] : k \in 1..Len(scores)}
              /\ \A a, b \in 1..Len(scores') :
                    a < b =>
                       /\ scores'[a].score >= scores'[b].score
                       /\ scores'[a].score = scores'[b].score =>
                              before(scores'[a]) < before(scores'[b])]_vars

\* two contacts of equal score were sorted, below a contact iterated after them
C7_Witness ==
    /\ BatchDone
    /\ \E a, b \in 1..Len(scores) :
          /\ a < b
          /\ scores[a].score = scores[b].score
          /\ scores[a].user_name < scores[b].user_name

\* C8: each of the four social-health sub-indices and overall_health lies in [0,100],
\* whatever scores (0..10) and dimension values the base scorer returned.
C8_HealthIndicesWithin0And100 ==
    BatchDone =>
        LET h == response.body.social_health
        IN  \A x \in {h.diversity_index, h.balance_index, h.maintenance_index,
                      h.emotional_index, h.overall_health} :
                0 <= x /\ x <= 100 * Milli

\* the achievements of the query
Achievements == QueryBody.achievements
Achievement(key) ==
    Achievements[CHOOSE k \in 1..Len(Achievements) : Achievements[k].key = key]

\* C9: every achievement record has a progress within [0,1].
C9_ProgressWithin0And1 ==
    QueryOk =>
        \A k \in 1..Len(Achievements) :
            /\ Achievements[k].progress.den > 0
            /\ 0 <= Achievements[k].progress.num
            /\ Achievements[k].progress.num <= Achievements[k].progress.den

\* a history with more than 100 night messages (raw progress above 1), all of them
\* sent by the user (raw balanced progress of -4)
C9_Witness ==
    /\ QueryOk /\ Len(Achievements) = 8
    /\ Achievement("night_guard").achieved
    /\ NRows(messages.rows) > 100
    /\ \A k \in 1..Len(messages.rows) : messages.rows[k].is_self = 1
    /\ Achievement("balanced").progress = RatZero

\* the calendar dates that carry at least one message with a valid instant
MessageDates ==
    {DateOf(messages.rows[k].ts) :
        k \in {j \in 1..Len(messages.rows) : messages.rows[j].ts # NaT}}

\* the length of the longest run of consecutive dates of D
LongestRun(D) ==
    IF D = {} THEN 0
    ELSE LET run(a) == (CHOOSE b \in D : /\ b >= a /\ b + 1 \notin D
                                          /\ \A c \in D : (c >= a /\ c + 1 \notin D) => b <= c)
                       - a + 1
             lengths == {run(a) : a \in {d \in D : d - 1 \notin D}}
         IN  CHOOSE m \in lengths : \A l \in lengths : l <= m

\* C10: the streak of long_streak is the length of the longest run of consecutive
\* calendar dates with a message; long_streak is achieved exactly when it is at least
\* 30, its progress is min(1, streak / 30), and exactly 30 consecutive days give
\* achieved with progress 1.
C10_StreakIsLongestRun ==
    (QueryOk /\ Len(Achievements) = 8) =>
        LET longest == LongestRun(MessageDates)
            a == Achievement("long_streak")
        IN  /\ max_streak(Days(QueryRows)) = longest
            /\ a.achieved <=> longest >= 30
            /\ a.progress = (IF longest >= 30 THEN RatOne ELSE Rat(longest, 30))
            /\ (longest = 30 /\ Cardinality(MessageDates) = 30) =>
                   (a.achieved /\ a.progress = RatOne)

\* messages on exactly 30 consecutive days and on no other day
C10_Witness ==
    /\ QueryOk /\ Len(Achievements) = 8
    /\ Cardinality(MessageDates) = 30
    /\ LongestRun(MessageDates) = 30
    /\ Achievement("long_streak").achieved

(***************************************************************************)
(* batch_analysis over a long contact list: the states in which the loop   *)
(* has run over up to MaxGraphContacts contacts that all have messages and *)
(* a well-formed score, and the rest of the handler from there.            *)
(***************************************************************************)
MaxGraphContacts == 52

\* how the scores of a long contact list are laid out, in tenths within 5.0..7.0:
\* scattered, all equal, ascending
GraphPatterns == {"scattered", "equal", "ascending"}

GraphScore(k, pattern) ==
    IF pattern = "scattered" THEN 50 + ((k * 8) % 21)
    ELSE IF pattern = "equal" THEN 60
    ELSE 50 + ((k * 20) \div MaxGraphContacts)

\* the messages of contact k: one dated message and (k - 1) * 450 undated ones; the
\* dates are 31 days apart, two contacts out of three in a month of their own
GraphFrame(k) ==
    Frame(FullColumns, "datetime64",
          << Row(1, ((2 * k) \div 3) * 31 * SecondsPerDay + ((k % 24) * SecondsPerHour),
                 k % 2, 1, 0, Text(4, 0)) >>
          \o (IF k > 1 THEN << Row((k - 1) * 450, NaT, 0, 1, 0, Text(1, 0)) >> ELSE <<>>))

GraphOutcome(k, pattern) ==
    Outcome(FALSE, GraphFrame(k), FALSE,
            Result(GraphScore(k, pattern), "active", Dimensions(60, 50, 70, 40),
                   GraphFrame(k)))

NoAccumulators ==
    [scores |-> <<>>, all_dimensions |-> [d \in Dims |-> <<>>],
     all_time_data |-> <<>>, analyzed_count |-> 0, failed_count |-> 0]

\* the accumulators after the iterations that gave first, then those that gave second:
\* an iteration only appends to the lists and adds to the counters
Then(first, second) ==
    [scores |-> first.scores \o second.scores,
     all_dimensions |-> [d \in Dims |-> first.all_dimensions[d] \o second.all_dimensions[d]],
     all_time_data |-> first.all_time_data \o second.all_time_data,
     analyzed_count |-> first.analyzed_count + second.analyzed_count,
     failed_count |-> first.failed_count + second.failed_count]

RECURSIVE LoopOver(_, _, _, _)
\* the accumulators after the loop body has run for the contacts lo..hi
LoopOver(cs, lo, hi, pattern) ==
    IF lo > hi THEN NoAccumulators
    ELSE IF lo = hi THEN ProcessContact(NoAccumulators, cs[lo], GraphOutcome(lo, pattern))
    ELSE LET mid == (lo + hi) \div 2
         IN  Then(LoopOver(cs, lo, mid, pattern), LoopOver(cs, mid + 1, hi, pattern))

AfterLoopInit ==
    \E n \in 0..MaxGraphContacts, pattern \in GraphPatterns, top_n \in TopNValues :
        LET cs == [k \in 1..n |-> Contact(k)]
            acc == LoopOver(cs, 1, n, pattern)
        IN  /\ pc = "loop"
            /\ endpoint = "batch_analysis"
            /\ params = [top_n |-> top_n, limit |-> 0]
            /\ contacts = cs
            /\ i = n
            /\ outcome = (IF n = 0 THEN NoOutcome ELSE GraphOutcome(n, pattern))
            /\ scores = acc.scores
            /\ all_dimensions = acc.all_dimensions
            /\ all_time_data = acc.all_time_data
            /\ analyzed_count = acc.analyzed_count
            /\ failed_count = acc.failed_count
            /\ messages = EmptyFrame
            /\ response = NoResponse

AfterLoopNext == BatchFinish

SpecAfterLoop == AfterLoopInit /\ [][AfterLoopNext]_vars

\* the graph of the finished batch
Graph == response.body.network_graph
\* the contact nodes of the graph: all nodes but the first
ContactNodes == Tail(Graph.nodes)

\* C11: for a non-empty summary list of n contacts the graph holds the one fixed
\* center node and min(n, 50) contact nodes, which are the min(n, 50) highest-score
\* contacts, and min(n, 50) edges, one from the center to each contact node; for an
\* empty list there is no graph.
C11_GraphOfTop50 ==
    BatchDone =>
        LET n == Len(scores)
            m == Min(n, 50)
        IN  IF n = 0 THEN DOMAIN Graph = {}
            ELSE /\ DOMAIN Graph = {"nodes", "edges", "categories"}
                 /\ Len(Graph.nodes) = m + 1
                 /\ Graph.nodes[1] = CenterNode
                 /\ \A k \in 1..m : "fixed" \notin DOMAIN ContactNodes[k]
                 /\ \A k \in 1..m : ContactNodes[k].id = scores[k].user_name
                 /\ \A a, b \in 1..m : a # b => ContactNodes[a].id # ContactNodes[b].id
                 /\ \A k \in 1..m, j \in 1..n :
                        (\A a \in 1..m : ContactNodes[a].id # scores[j].user_name)
                            => scores[j].score <= ContactNodes[k].value
                 /\ Len(Graph.edges) = m
                 /\ \A k \in 1..m : /\ Graph.edges[k].source = CenterNode.id
                                    /\ Graph.edges[k].target = ContactNodes[k].id

\* a batch of more than 50 scored contacts, of unequal scores, has finished
C11_Witness ==
    /\ BatchDone
    /\ Len(scores) > 50
    /\ scores[1].score > scores[Len(scores)].score
    /\ Len(Graph.nodes) = 51
    /\ Len(Graph.edges) = 50

\* the social-health part of the finished batch's report
Health == response.body.social_health
\* the four sub-indices as calculate_social_health computed them, before the report
\* rounds them to one decimal
SubIndex ==
    [diversity |-> diversity_index(scores),
     balance |-> balance_index(scores),
     maintenance |-> maintenance_index(scores),
     emotional |-> emotional_index(all_dimensions)]
SuggestionOrder == <<"diversity", "balance", "maintenance", "emotional">>
SuggestionRank(about) == CHOOSE k \in 1..Len(SuggestionOrder) : SuggestionOrder[k] = about

\* C12: the suggestions are at most 3, each is about a sub-index that is below 60,
\* they come in the order diversity, balance, maintenance, emotional with at most one
\* per sub-index, and when all four sub-indices are below 60 the emotional one is left out.
C12_SuggestionsCappedInOrder ==
    (BatchDone /\ scores # <<>>) =>
        LET sug == Health.suggestions
        IN  /\ Len(sug) <= 3
            /\ \A k \in 1..Len(sug) :
                  /\ sug[k].about \in DOMAIN SubIndex
                  /\ SubIndex[sug[k].about] < 60 * Milli
            /\ \A a, b \in 1..Len(sug) :
                  a < b => SuggestionRank(sug[a].about) < SuggestionRank(sug[b].about)
            /\ (\A d \in DOMAIN SubIndex : SubIndex[d] < 60 * Milli) =>
                  [k \in 1..Len(sug) |-> sug[k].about] = <<"diversity", "balance", "maintenance">>

\* a batch whose four sub-indices are all below 60 has finished with three suggestions
C12_Witness ==
    /\ BatchDone /\ scores # <<>>
    /\ \A d \in DOMAIN SubIndex : SubIndex[d] < 60 * Milli
    /\ Len(Health.suggestions) = 3

\* the time analysis of the finished batch's report
TimeAnalysis == response.body.time_analysis
\* the year-month buckets that occur in the time-feature tuples
MonthsPresent == {all_time_data[k].month : k \in 1..Len(all_time_data)}
TuplesOfMonth(month) == Cardinality({k \in 1..Len(all_time_data) : all_time_data[k].month = month})

\* C13: the monthly trend lists the min(12, d) most recent of the d year-month buckets
\* present, oldest first, each with the number of tuples of that month; the growth list
\* has one entry per trend point after the first, the percentage change from the
\* previous point rounded to two decimals, and 0 when the previous count is 0.
C13_TrendOfLast12Months ==
    (BatchDone /\ all_time_data # <<>>) =>
        LET trend == TimeAnalysis.monthly_trend
            growth == TimeAnalysis.monthly_growth
            listed == {trend[k].month : k \in 1..Len(trend)}
        IN  /\ Len(trend) = Min(12, Cardinality(MonthsPresent))
            /\ listed \subseteq MonthsPresent
            /\ \A a, b \in 1..Len(trend) : a < b => trend[a].month < trend[b].month
            /\ \A m \in MonthsPresent \ listed : \A l \in listed : m < l
            /\ \A k \in 1..Len(trend) : trend[k].count = TuplesOfMonth(trend[k].month)
            /\ Len(growth) = Max(0, Len(trend) - 1)
            /\ \A k \in 1..Len(growth) :
                  LET prev == trend[k].count
                      curr == trend[k + 1].count
                  IN  /\ growth[k].month = trend[k + 1].month
                      /\ prev = 0 => growth[k].growth = 0
                      /\ prev > 0 =>
                            2 * Abs(growth[k].growth * prev - (curr - prev) * 10000) <= prev

\* a batch with messages in more than 12 months has finished, the month counts of its
\* trend going up and down
C13_Witness ==
    /\ BatchDone /\ all_time_data # <<>>
    /\ Cardinality(MonthsPresent) > 12
    /\ Len(TimeAnalysis.monthly_trend) = 12
    /\ \E a, b \in 1..Len(TimeAnalysis.monthly_growth) :
          /\ TimeAnalysis.monthly_growth[a].growth > 0
          /\ TimeAnalysis.monthly_growth[b].growth < 0

\* C14: when the batch finishes, the ranked score list and each of the four dimension
\* arrays have exactly total_analyzed entries, and total_analyzed + failed_count is at
\* most the number of contacts iterated and at most total_contacts.
C14_ListsMatchAnalyzedCount ==
    BatchDone =>
        /\ response.body.total_analyzed = analyzed_count
        /\ response.body.failed_count = failed_count
        /\ Len(scores) = analyzed_count
        /\ \A d \in Dims : Len(all_dimensions[d]) = analyzed_count
        /\ analyzed_count + failed_count <= Len(contacts_to_analyze)
        /\ analyzed_count + failed_count <= response.body.total_contacts

\* C15: an achievement that is reported as achieved has progress 1.
C15_AchievedHasFullProgress ==
    QueryOk =>
        \A k \in 1..Len(Achievements) :
            Achievements[k].achieved => Achievements[k].progress = RatOne

====
